---- MODULE Spec2Model ----
\* Ingestion / retrieval core of the study-notes backend:
\*   app/services/rag_engine.py   ingest_document, retrieve_context,
\*                                delete_document_chunks, get_stats
\*   app/database/vector_db.py    the process-wide VectorDB handle and the
\*                                calls made on the ChromaDB collection
\*   app/main.py                  lifespan (startup initialisation)
\*   app/routers/upload.py        upload_text, upload_file, delete_document
\*   app/config.py                Settings (chunk_size, chunk_overlap)
\* Specifications: Spec (the core calls, one at a time), SpecUpload (the
\* upload router on top of the core), SpecTasks (concurrent callers of the
\* core), SpecChunker (the text splitter alone), SpecConfig (the core under
\* any settings the environment can supply).
\* Texts are sequences of one-character strings.
\*
\* The libraries the code calls are modelled by what the calls do:
\*   - RecursiveCharacterTextSplitter.split_text (keep_separator=True,
\*     strip_whitespace=True): _split_text, _split_text_with_regex,
\*     _merge_splits, _join_docs;
\*   - Chroma's collection.add inserts new ids and skips ids already stored;
\*     collection.query filters by `where` before ranking, returns at most
\*     n_results entries by ascending distance, and rejects a `where` dict that
\*     has more than one top-level key with ValueError;
\*   - SentenceTransformer.encode is a deterministic function of the text; its
\*     load or its inference may raise.
EXTENDS Integers, Sequences, FiniteSets, TLC

\* ---------------------------------------------------------------- bounds
\* The configured chunk size and overlap (settings.chunk_size and
\* settings.chunk_overlap, scaled down to the length of the texts below) and
\* the largest top_k a caller passes.
ChunkSize == 2
ChunkOverlap == 1
MaxTopK == 2
\* The longest text, and the largest chunk size, the chunker is run on alone.
MaxTextLen == 3

\* ------------------------------------------------------ program constants
\* chunk_size and chunk_overlap as config.py defaults them
DefaultChunkSize == 800
DefaultChunkOverlap == 200

Users == {"u1", "u2"}
DocIds == {"d1", "d2"}
Filenames == {"f1"}
FileTypes == {"text"}
\* Texts handed to ingest_document: empty, whitespace only, one word,
\* two words.
Texts == { <<>>,
           <<" ", "\n">>,
           <<"a">>,
           <<"b", " ", "a">> }
Queries == { <<"a">>, <<"b">> }
\* document_ids as callers pass it: None, or a list of document ids.
None == "None"
DocIdLists == {None, <<>>, <<"d1">>}

\* ------------------------------------------------------- string helpers
Whitespace == {" ", "\n", "\t"}

RECURSIVE Join(_, _)
\* separator.join(docs)
Join(docs, separator) ==
    IF docs = <<>> THEN <<>>
    ELSE IF Len(docs) = 1 THEN docs[1]
    ELSE docs[1] \o separator \o Join(Tail(docs), separator)

RECURSIVE LStrip(_)
LStrip(s) ==
    IF s # <<>> /\ Head(s) \in Whitespace THEN LStrip(Tail(s)) ELSE s

RECURSIVE RStrip(_)
RStrip(s) ==
    IF s # <<>> /\ s[Len(s)] \in Whitespace
    THEN RStrip(SubSeq(s, 1, Len(s) - 1)) ELSE s

\* str.strip()
Strip(s) == RStrip(LStrip(s))

\* separator occurs in text at position i
MatchAt(text, separator, i) ==
    /\ i + Len(separator) - 1 <= Len(text)
    /\ SubSeq(text, i, i + Len(separator) - 1) = separator

\* re.search(re.escape(separator), text): position of the leftmost match, 0 if none
Search(text, separator) ==
    LET hits == {i \in 1..Len(text) : MatchAt(text, separator, i)}
    IN IF hits = {} THEN 0 ELSE CHOOSE i \in hits : \A j \in hits : i <= j

RECURSIVE ReSplit(_, _)
\* the pieces between the (non-overlapping, leftmost) matches of a non-empty
\* separator: re.split without the captured separators
ReSplit(text, separator) ==
    LET i == Search(text, separator)
    IN IF i = 0 THEN <<text>>
       ELSE <<SubSeq(text, 1, i - 1)>>
            \o ReSplit(SubSeq(text, i + Len(separator), Len(text)), separator)

\* SplitTextWithRegex as with keep_separator=False: the separators are dropped
SplitTextDroppingSeparator(text, separator) ==
    LET pieces == ReSplit(text, separator)
        splits == IF separator # <<>> THEN pieces
                  ELSE [k \in 1..Len(text) |-> <<text[k]>>]
    IN SelectSeq(splits, LAMBDA s : s # <<>>)

\* _split_text_with_regex(text, separator, keep_separator=True): every piece
\* after the first keeps the separator in front of it; empty pieces are dropped
SplitTextWithRegex(text, separator) ==
    LET pieces == ReSplit(text, separator)
        splits == IF separator # <<>>
                  THEN [k \in 1..Len(pieces) |->
                          IF k = 1 THEN pieces[1] ELSE separator \o pieces[k]]
                  ELSE [k \in 1..Len(text) |-> <<text[k]>>]
    IN SelectSeq(splits, LAMBDA s : s # <<>>)

\* --------------------------------------------- RecursiveCharacterTextSplitter
\* separators=["\n\n", "\n", ". ", " ", ""]
Separators == << <<"\n", "\n">>, <<"\n">>, <<".", " ">>, <<" ">>, <<>> >>

\* JoinDocs as with strip_whitespace off
JoinDocsUnstripped(docs, separator) == Join(docs, separator)

\* TextSplitter._join_docs: joined and stripped; <<>> stands for None
JoinDocs(docs, separator) == Strip(Join(docs, separator))

Total(docs, separator) ==
    Len(Join(docs, separator))

\* PopWhile with the loop left out: no split is ever dropped
PopNothing(current, len, separator, cfg) == current

RECURSIVE PopWhile(_, _, _, _)
\* the while loop of _merge_splits: drop leading splits of current_doc while it
\* is longer than the overlap, or while the next split still does not fit
PopWhile(current, len, separator, cfg) ==
    LET total == Total(current, separator)
        sl == IF Len(current) > 0 THEN Len(separator) ELSE 0
    IN IF total > cfg.chunk_overlap
          \/ (total + len + sl > cfg.chunk_size /\ total > 0)
       THEN PopWhile(Tail(current), len, separator, cfg)
       ELSE current

RECURSIVE MergeFrom(_, _, _, _, _, _)
\* TextSplitter._merge_splits, from split k on, with docs and current_doc so far
MergeFrom(splits, k, docs, current, separator, cfg) ==
    IF k > Len(splits)
    THEN LET doc == JoinDocs(current, separator)
         IN IF doc # <<>> THEN Append(docs, doc) ELSE docs
    ELSE LET d == splits[k]
             total == Total(current, separator)
             sl == IF Len(current) > 0 THEN Len(separator) ELSE 0
             over == total + Len(d) + sl > cfg.chunk_size
             doc == JoinDocs(current, separator)
             docs2 == IF over /\ Len(current) > 0 /\ doc # <<>>
                      THEN Append(docs, doc) ELSE docs
             cur2 == IF over /\ Len(current) > 0
                     THEN PopWhile(current, Len(d), separator, cfg)
                     ELSE current
         IN MergeFrom(splits, k + 1, docs2, Append(cur2, d), separator, cfg)

MergeSplits(splits, separator, cfg) ==
    MergeFrom(splits, 1, <<>>, <<>>, separator, cfg)

\* index in separators of the separator _split_text picks: the first that is
\* empty or occurs in the text
PickSeparator(text, separators) ==
    CHOOSE i \in 1..Len(separators) :
        /\ separators[i] = <<>> \/ Search(text, separators[i]) # 0
        /\ \A j \in 1..(i - 1) :
               separators[j] # <<>> /\ Search(text, separators[j]) = 0

RECURSIVE SplitTextRec(_, _, _)
RECURSIVE SplitLoop(_, _, _, _, _, _)
\* the for loop of _split_text over the splits, from split k on
SplitLoop(splits, k, good, final, newSeparators, cfg) ==
    IF k > Len(splits)
    THEN IF good # <<>> THEN final \o MergeSplits(good, <<>>, cfg) ELSE final
    ELSE LET s == splits[k]
         IN IF Len(s) < cfg.chunk_size
            THEN SplitLoop(splits, k + 1, Append(good, s), final, newSeparators, cfg)
            ELSE LET flushed == IF good # <<>>
                                THEN final \o MergeSplits(good, <<>>, cfg)
                                ELSE final
                     more == IF newSeparators = <<>>
                             THEN <<s>>
                             ELSE SplitTextRec(s, newSeparators, cfg)
                 IN SplitLoop(splits, k + 1, <<>>, flushed \o more, newSeparators, cfg)

\* RecursiveCharacterTextSplitter._split_text
SplitTextRec(text, separators, cfg) ==
    LET i == PickSeparator(text, separators)
        separator == separators[i]
        newSeparators == IF separator = <<>> THEN <<>>
                         ELSE SubSeq(separators, i + 1, Len(separators))
        splits == SplitTextWithRegex(text, separator)
    IN SplitLoop(splits, 1, <<>>, <<>>, newSeparators, cfg)

\* splitter.split_text(text) with the configured chunk size and overlap
SplitText(text, cfg) == SplitTextRec(text, Separators, cfg)

\* ------------------------------------------------------------ embeddings
RECURSIVE CountOf(_, _)
CountOf(text, c) ==
    IF text = <<>> THEN 0
    ELSE (IF Head(text) = c THEN 1 ELSE 0) + CountOf(Tail(text), c)

\* model.encode(text): the sentence-transformer is a fixed, deterministic
\* function of the text; here the vector of letter counts
Encode(text) == <<CountOf(text, "a"), CountOf(text, "b")>>

\* the collection is created without "hnsw:space", so Chroma measures
\* squared L2 distance
Distance(v, w) ==
    (v[1] - w[1]) * (v[1] - w[1]) + (v[2] - w[2]) * (v[2] - w[2])

\* ------------------------------------------------------------------ state
VARIABLES
    phase,            \* "boot" before lifespan startup has run, "up" after
    settings,         \* app.config.settings: chunk_size, chunk_overlap
    collection,       \* vector_db.collection: None or the opened collection
    embedding_model,  \* vector_db._embedding_model: None or the loaded model
    index,            \* the entries persisted in collection "study_documents"
    call,             \* the core call that completed last, with its arguments
    ret,              \* what that call returned or raised
    prev,             \* summary of the call completed before it
    documents,        \* the records of the MongoDB collection "documents"
    files,            \* the ids whose uploaded file is in the upload directory
    response,         \* the HTTP response of the router request served last
    workers,          \* the concurrent callers and the position of each
    loop,             \* the task running on the event loop's thread, or None
    loads             \* how many times SentenceTransformer(...) was constructed

coreVars == <<phase, settings, collection, embedding_model, index, call, ret, prev>>
routerVars == <<documents, files, response>>
workerVars == <<workers, loop, loads>>
vars == <<coreVars, routerVars, workerVars>>

Loaded == "SentenceTransformer"
Opened == "study_documents"

\* app.config.settings as loaded from the environment at import
Settings == [chunk_size |-> ChunkSize, chunk_overlap |-> ChunkOverlap]

\* app.config.settings when the environment overrides nothing
DefaultSettings ==
    [chunk_size |-> DefaultChunkSize, chunk_overlap |-> DefaultChunkOverlap]

NoCall == [op |-> "none"]
\* ret.writes counts the write calls (collection.add, collection.delete) the
\* call issued to the store
NoRet == [err |-> "none", value |-> None, results |-> None, writes |-> 0]
NoPrev == [op |-> "none"]

\* no router request served yet
NoResponse == [route |-> "none", status |-> 0, ingest |-> "none"]

\* the concurrent callers of the core: tasks of the event loop and threads
Workers == {"w1", "w2"}
Idle == [pc |-> "idle"]

\* the process after import, before lifespan startup, with settings cfg
InitWith(cfg) ==
    /\ phase = "boot"
    /\ settings = cfg
    /\ collection = None
    /\ embedding_model = None
    /\ index = {}
    /\ call = NoCall
    /\ ret = NoRet
    /\ prev = NoPrev
    /\ documents = {}
    /\ files = {}
    /\ response = NoResponse
    /\ workers = [w \in Workers |-> Idle]
    /\ loop = None
    /\ loads = 0

Init == InitWith(Settings)

\* ------------------------------------------------------- the collection
\* f"{document_id}_chunk_{i}"
ChunkId(document_id, i) == <<document_id, "_chunk_", i>>

Ids(entries) == {e.id : e \in entries}

RECURSIVE Decimal(_)
\* str(i) for an integer i >= 0, as the f-string formats it
Decimal(i) ==
    LET digit == <<"0", "1", "2", "3", "4", "5", "6", "7", "8", "9">>[(i % 10) + 1]
    IN IF i < 10 THEN <<digit>> ELSE Decimal(i \div 10) \o <<digit>>

\* f"{document_id}_chunk_{i}" character by character; ChunkId stands for it
FormatChunkId(document_id, i) ==
    document_id \o <<"_", "c", "h", "u", "n", "k", "_">> \o Decimal(i)

\* CollectionAdd as a delete-then-write: the entries of the documents written
\* are dropped first
CollectionAddReplacingDocument(entries, new) ==
    {e \in entries :
        e.metadata.document_id \notin {n.metadata.document_id : n \in new}}
        \cup new

\* CollectionAdd replacing the stored record of an id that is written again
CollectionUpsert(entries, new) ==
    {e \in entries : e.id \notin Ids(new)} \cup new

\* CollectionAdd storing every record, also next to one with the same id
CollectionAddAppending(entries, new) == entries \cup new

\* collection.add(documents, embeddings, metadatas, ids): Chroma's add inserts
\* the records whose id is new and skips a record whose id is already in the
\* collection (the stored record is kept; upsert is a different call)
CollectionAdd(entries, new) ==
    entries \cup {e \in new : e.id \notin Ids(entries)}

\* collection.delete(ids): unknown ids are ignored
CollectionDelete(entries, ids) == {e \in entries : e.id \notin ids}

\* CollectionGetIds returning the document's first chunk only
CollectionGetFirstId(entries, document_id) ==
    {e.id : e \in {x \in entries : /\ x.metadata.document_id = document_id
                                   /\ x.metadata.chunk_index = 0}}

\* collection.get(where={"document_id": document_id}, include=[])["ids"]
CollectionGetIds(entries, document_id) ==
    {e.id : e \in {x \in entries : x.metadata.document_id = document_id}}

\* collection.count()
CollectionCount(entries) == Cardinality(entries)

Range(seq) == {seq[i] : i \in 1..Len(seq)}

\* one condition of a where filter: a bare value is Chroma's shorthand for $eq
Holds(cond, v) ==
    IF cond.op = "$in" THEN v \in Range(cond.v) ELSE v = cond.v

\* Matches with the user_id condition of the filter left out
MatchesIgnoringUser(e, where) ==
    \A key \in DOMAIN where \ {"user_id"} : Holds(where[key], e.metadata[key])

\* an entry satisfies a where filter: every key's condition holds of its metadata
Matches(e, where) ==
    \A key \in DOMAIN where : Holds(where[key], e.metadata[key])

\* Chroma's validation of a where filter: a filter with several keys is
\* rejected with ValueError (several conditions need an explicit $and)
ValidWhere(where) == Cardinality(DOMAIN where) = 1

Min(a, b) == IF a <= b THEN a ELSE b

\* collection.query(query_embeddings=[v], n_results=n, where=where): the
\* possible rankings, each a sequence of at most n matching entries, nearest
\* first; entries at equal distance may come in either order
CollectionQuery(entries, v, n, where) ==
    LET matching == {e \in entries : Matches(e, where)}
        k == Min(n, Cardinality(matching))
        dist(e) == Distance(v, e.embedding)
    IN {r \in [1..k -> matching] :
          /\ \A i, j \in 1..k : i < j => r[i] # r[j] /\ dist(r[i]) <= dist(r[j])
          /\ \A e \in matching \ Range(r) :
                \A i \in 1..k : dist(r[i]) <= dist(e)}

\* the dict collection.query returns (the inner lists of the single query)
QueryResults(r, v) ==
    [ids |-> [i \in 1..Len(r) |-> r[i].id],
     documents |-> [i \in 1..Len(r) |-> r[i].document],
     metadatas |-> [i \in 1..Len(r) |-> r[i].metadata],
     distances |-> [i \in 1..Len(r) |-> Distance(v, r[i].embedding)]]

\* --------------------------------------------------------------- rag_engine
\* BuildEntries with the chunk index left out of the id
BuildEntriesOneId(chunks, document_id, user_id, filename, file_type) ==
    {[id |-> ChunkId(document_id, 0),
      document |-> chunks[i],
      embedding |-> Encode(chunks[i]),
      metadata |-> [document_id |-> document_id,
                    user_id |-> user_id,
                    filename |-> filename,
                    file_type |-> file_type,
                    chunk_index |-> i - 1]] : i \in 1..Len(chunks)}

\* BuildEntries counting the chunks from 1
BuildEntriesOneBased(chunks, document_id, user_id, filename, file_type) ==
    {[id |-> ChunkId(document_id, i),
      document |-> chunks[i],
      embedding |-> Encode(chunks[i]),
      metadata |-> [document_id |-> document_id,
                    user_id |-> user_id,
                    filename |-> filename,
                    file_type |-> file_type,
                    chunk_index |-> i]] : i \in 1..Len(chunks)}

\* the documents, metadatas and ids ingest_document builds from the chunks
BuildEntries(chunks, document_id, user_id, filename, file_type) ==
    {[id |-> ChunkId(document_id, i - 1),
      document |-> chunks[i],
      embedding |-> Encode(chunks[i]),
      metadata |-> [document_id |-> document_id,
                    user_id |-> user_id,
                    filename |-> filename,
                    file_type |-> file_type,
                    chunk_index |-> i - 1]] : i \in 1..Len(chunks)}

\* BuildFilter adding the document_id condition for every list, also []
BuildFilterEmptyIn(user_id, document_ids) ==
    IF document_ids # None
    THEN [user_id |-> [op |-> "$eq", v |-> user_id],
          document_id |-> [op |-> "$in", v |-> document_ids]]
    ELSE [user_id |-> [op |-> "$eq", v |-> user_id]]

\* filter_metadata of retrieve_context: user_id, and document_id when
\* document_ids is truthy (neither None nor an empty list)
BuildFilter(user_id, document_ids) ==
    IF document_ids # None /\ document_ids # <<>>
    THEN [user_id |-> [op |-> "$eq", v |-> user_id],
          document_id |-> [op |-> "$in", v |-> document_ids]]
    ELSE [user_id |-> [op |-> "$eq", v |-> user_id]]

\* BuildResponse reporting the distance itself as the score
BuildResponseRawDistance(results) ==
    [contexts |-> results.documents,
     sources |-> [i \in 1..Len(results.documents) |->
                    [content |-> results.documents[i],
                     filename |-> results.metadatas[i].filename,
                     document_id |-> results.metadatas[i].document_id,
                     score |-> results.distances[i]]]]

\* contexts and sources retrieve_context builds from the store's results
BuildResponse(results) ==
    [contexts |-> results.documents,
     sources |-> [i \in 1..Len(results.documents) |->
                    [content |-> results.documents[i],
                     filename |-> results.metadatas[i].filename,
                     document_id |-> results.metadatas[i].document_id,
                     score |-> 1 - results.distances[i]]]]

\* outcomes of one create_embeddings call: the model loads (if not yet loaded)
\* and encodes, the load raises, or encode raises
EmbedOutcomes(model) ==
    IF model = None THEN {"ok", "load_fail", "encode_fail"}
    ELSE {"ok", "encode_fail"}

\* GetCollectionRaises without the check for a missing collection
GetCollectionNeverRaises(coll) == FALSE

\* get_collection() raises RuntimeError("VectorDB not initialized")
GetCollectionRaises(coll) == coll = None

\* ModelAfter with the loaded model not kept in _embedding_model
ModelForgotten(model, env) == None

\* vector_db._embedding_model after create_embeddings with outcome env
ModelAfter(model, env) ==
    IF model = None /\ env = "load_fail" THEN None ELSE Loaded

\* create_embeddings raises under outcome env
EmbedRaises(model, env) ==
    (model = None /\ env = "load_fail") \/ env = "encode_fail"

\* number of entries of a document: the records that
\* collection.get(where={"document_id": document_id}) selects
DocumentCount(entries, document_id) ==
    Cardinality({e \in entries : e.metadata.document_id = document_id})

\* what prev keeps of the call completed before call c, when that was a
\* successful ingest_document: its result and the document's entry count, when
\* c ingests the same document_id and text again; its document, when it wrote
\* chunks and c is a retrieve_context of the same user; nothing otherwise
Summary(c) ==
    IF call.op = "ingest_document" /\ ret.err = "none"
    THEN IF /\ c.op = "ingest_document"
            /\ c.document_id = call.document_id /\ c.text = call.text
         THEN [op |-> call.op, value |-> ret.value,
               count |-> DocumentCount(index, call.document_id)]
         ELSE IF /\ c.op = "retrieve_context"
                 /\ c.user_id = call.user_id /\ ret.value > 0
         THEN [op |-> call.op, document_id |-> call.document_id]
         ELSE NoPrev
    ELSE NoPrev

Completed(c, r) ==
    /\ call' = c
    /\ ret' = r
    /\ prev' = Summary(c)

Raise(c, e) ==
    Completed(c, [err |-> e, value |-> None, results |-> None, writes |-> 0])

Return(c, v) ==
    Completed(c, [err |-> "none", value |-> v, results |-> None, writes |-> 0])

\* Characters the second re.sub of clean_extracted_text removes: those outside
\* [\w\s.,!?;:\-'"()\[\]{}@#$%&*+=/]
Removed == {"~", "^", "<", ">", "|"}

RECURSIVE CollapseWhitespace(_)
\* re.sub(r'\s+', ' ', text)
CollapseWhitespace(s) ==
    IF s = <<>> THEN <<>>
    ELSE IF Head(s) \in Whitespace
    THEN <<" ">> \o CollapseWhitespace(LStrip(s))
    ELSE <<Head(s)>> \o CollapseWhitespace(Tail(s))

\* clean_extracted_text(text); no "\n" is left for its third re.sub
CleanExtractedText(text) ==
    IF text = <<>> THEN <<>>
    ELSE Strip(SelectSeq(CollapseWhitespace(text), LAMBDA ch : ch \notin Removed))

\* splitter.split_text for the texts handed to ingest_document under the
\* configured settings
SplitCache == [c \in {Settings} |-> [t \in Texts |-> SplitText(t, c)]]

\* Contents posted or extracted: one that cleans to fewer than 50 characters
\* and one of 60 characters that cleans to 59
UploadContents ==
    { <<"a", "\n", "\n", "~", "b", " ">>,
      [i \in 1..60 |-> IF i % 4 = 0 THEN " " ELSE "a"] }

\* settings read from the environment (CHUNK_SIZE, CHUNK_OVERLAP) under which
\* a content of 59 characters makes two chunks
ShortChunkSettings == [chunk_size |-> 40, chunk_overlap |-> 10]

\* the settings the upload router is run under
UploadSettings == {DefaultSettings, ShortChunkSettings}

\* clean_extracted_text and, under the default settings, splitter.split_text
\* for the uploaded contents
UploadCache ==
    [content \in UploadContents |->
        [text |-> CleanExtractedText(content),
         chunks |-> SplitText(CleanExtractedText(content), DefaultSettings)]]

\* splitter.split_text for the uploaded contents under the short chunk size
ShortChunkCache ==
    [content \in UploadContents |->
        SplitText(CleanExtractedText(content), ShortChunkSettings)]

\* chunks = splitter.split_text(text)
Chunks(text, cfg) ==
    IF cfg = Settings /\ text \in Texts THEN SplitCache[cfg][text]
    ELSE IF cfg = DefaultSettings
            /\ \E content \in UploadContents : UploadCache[content].text = text
    THEN UploadCache[CHOOSE content \in UploadContents :
                        UploadCache[content].text = text].chunks
    ELSE IF cfg = ShortChunkSettings
            /\ \E content \in UploadContents : UploadCache[content].text = text
    THEN ShortChunkCache[CHOOSE content \in UploadContents :
                            UploadCache[content].text = text]
    ELSE SplitText(text, cfg)

\* RecursiveCharacterTextSplitter(chunk_size, chunk_overlap, separators):
\* TextSplitter.__init__ raises ValueError when chunk_overlap > chunk_size
\* ("Got a larger chunk overlap than chunk size"); an overlap equal to the
\* chunk size is accepted
SplitterRaises(cfg) == cfg.chunk_overlap > cfg.chunk_size

\* AddDocuments with collection.add issued before create_embeddings has
\* returned
AddDocumentsWriteFirst(entries, new, raises) == CollectionAdd(entries, new)

\* add_documents: create_embeddings(documents) runs first; collection.add is
\* reached only when it has returned, so not when it raises
AddDocuments(entries, new, raises) ==
    IF raises THEN entries ELSE CollectionAdd(entries, new)

\* DeleteIssued without the test of results["ids"]
DeleteAlwaysIssued(ids) == TRUE

\* delete_document_chunks calls delete_documents only `if results["ids"]`
DeleteIssued(ids) == ids # {}

\* ingest_document(text, document_id, user_id, filename, file_type)
IngestDocument(text, document_id, user_id, filename, file_type, env) ==
    LET c == [op |-> "ingest_document", text |-> text, document_id |-> document_id,
              user_id |-> user_id, filename |-> filename, file_type |-> file_type]
        chunks == Chunks(text, settings)
        new == BuildEntries(chunks, document_id, user_id, filename, file_type)
    IN /\ phase = "up"
       /\ IF SplitterRaises(settings)
          THEN /\ Raise(c, "ValueError")
               /\ UNCHANGED <<embedding_model, index>>
          ELSE IF chunks = <<>>
          THEN /\ Return(c, 0)
               /\ UNCHANGED <<embedding_model, index>>
          ELSE IF GetCollectionRaises(collection)
          THEN /\ Raise(c, "RuntimeError")
               /\ UNCHANGED <<embedding_model, index>>
          ELSE IF EmbedRaises(embedding_model, env)
          THEN /\ Raise(c, "EmbeddingError")
               /\ embedding_model' = ModelAfter(embedding_model, env)
               /\ index' = AddDocuments(index, new, TRUE)
          ELSE /\ embedding_model' = ModelAfter(embedding_model, env)
               /\ index' = AddDocuments(index, new, FALSE)
               /\ Completed(c, [err |-> "none", value |-> Len(chunks),
                                results |-> None, writes |-> 1])
       /\ UNCHANGED <<phase, settings, collection>>

\* retrieve_context(query, user_id, top_k, document_ids)
RetrieveContext(query, user_id, top_k, document_ids, env) ==
    LET c == [op |-> "retrieve_context", query |-> query, user_id |-> user_id,
              top_k |-> top_k, document_ids |-> document_ids]
        where == BuildFilter(user_id, document_ids)
        v == Encode(query)
    IN /\ phase = "up"
       /\ IF GetCollectionRaises(collection)
          THEN /\ Raise(c, "RuntimeError")
               /\ UNCHANGED embedding_model
          ELSE IF EmbedRaises(embedding_model, env)
          THEN /\ Raise(c, "EmbeddingError")
               /\ embedding_model' = ModelAfter(embedding_model, env)
          ELSE /\ embedding_model' = ModelAfter(embedding_model, env)
               /\ IF ~ValidWhere(where)
                  THEN Raise(c, "ValueError")
                  ELSE \E r \in CollectionQuery(index, v, top_k, where) :
                          Completed(c, [err |-> "none",
                                        value |-> BuildResponse(QueryResults(r, v)),
                                        results |-> QueryResults(r, v),
                                        writes |-> 0])
       /\ UNCHANGED <<phase, settings, collection, index>>

\* delete_document_chunks(document_id)
DeleteDocumentChunks(document_id) ==
    LET c == [op |-> "delete_document_chunks", document_id |-> document_id]
        ids == CollectionGetIds(index, document_id)
    IN /\ phase = "up"
       /\ IF GetCollectionRaises(collection)
          THEN /\ Raise(c, "RuntimeError")
               /\ UNCHANGED index
          ELSE /\ index' = IF DeleteIssued(ids) THEN CollectionDelete(index, ids)
                         ELSE index
               /\ Completed(c, [err |-> "none", value |-> None, results |-> ids,
                                writes |-> IF DeleteIssued(ids) THEN 1 ELSE 0])
       /\ UNCHANGED <<phase, settings, collection, embedding_model>>

\* get_stats()
GetStats ==
    LET c == [op |-> "get_stats"]
    IN /\ phase = "up"
       /\ IF GetCollectionRaises(collection)
          THEN Raise(c, "RuntimeError")
          ELSE Return(c, [total_documents |-> CollectionCount(index)])
       /\ UNCHANGED <<phase, settings, collection, embedding_model, index>>
       /\ UNCHANGED <<routerVars, workerVars>>

\* lifespan startup: initialize_vector_db() opens the collection, or raises and
\* the exception is swallowed, leaving vector_db.collection None
Lifespan(opened) ==
    /\ phase = "boot"
    /\ phase' = "up"
    /\ collection' = IF opened THEN Opened ELSE None
    /\ Completed([op |-> "lifespan"], NoRet)
    /\ UNCHANGED <<settings, embedding_model, index>>

\* the process exits and a new one boots: the module-level handles are gone,
\* the persisted collection and the environment's settings stay
Restart ==
    /\ phase = "up"
    /\ phase' = "boot"
    /\ collection' = None
    /\ embedding_model' = None
    /\ Completed([op |-> "exit"], NoRet)
    /\ UNCHANGED <<settings, index>>
    /\ UNCHANGED <<routerVars, workerVars>>

Ingest ==
    /\ \E text \in Texts, document_id \in DocIds, user_id \in Users,
          filename \in Filenames, file_type \in FileTypes,
          env \in EmbedOutcomes(embedding_model) :
           IngestDocument(text, document_id, user_id, filename, file_type, env)
    /\ UNCHANGED <<routerVars, workerVars>>

Retrieve ==
    /\ \E query \in Queries, user_id \in Users, top_k \in 1..MaxTopK,
          document_ids \in DocIdLists, env \in EmbedOutcomes(embedding_model) :
           RetrieveContext(query, user_id, top_k, document_ids, env)
    /\ UNCHANGED <<routerVars, workerVars>>

Delete ==
    /\ \E document_id \in DocIds : DeleteDocumentChunks(document_id)
    /\ UNCHANGED <<routerVars, workerVars>>

Startup ==
    /\ \E opened \in BOOLEAN : Lifespan(opened)
    /\ UNCHANGED <<routerVars, workerVars>>

Next == Ingest \/ Retrieve \/ Delete \/ GetStats \/ Startup \/ Restart

Spec == Init /\ [][Next]_vars

\* ---------------------------------------------------------- routers/upload
\* extensions of uploaded file names: an allowed one and one that is not
FileExts == {"txt", "exe"}
AllowedExtensions == {"pdf", "ppt", "pptx", "png", "jpg", "jpeg", "txt"}

\* text extraction from the saved file returns the text or raises
ExtractOutcomes == {"ok", "extract_fail"}

\* documents.insert_one raises or not
InsertOutcomes == {"ok", "insert_fail"}

\* documents.find_one and documents.delete_one raise or not
DeleteOutcomes == {"ok", "find_fail", "delete_fail"}

\* str(uuid.uuid4()): an id that nothing stored refers to
FreshIds ==
    DocIds \ ({e.metadata.document_id : e \in index}
                 \cup {d.id : d \in documents} \cup files)

\* DocumentRecord with the chunk count left at 0
DocumentRecordNoCount(file_id, user_id, filename, file_type, chunks_count) ==
    [id |-> file_id, user_id |-> user_id, filename |-> filename,
     file_type |-> file_type, chunks_count |-> 0]

\* the Document record the upload handlers build
DocumentRecord(file_id, user_id, filename, file_type, chunks_count) ==
    [id |-> file_id, user_id |-> user_id, filename |-> filename,
     file_type |-> file_type, chunks_count |-> chunks_count]

\* DocumentsAfterUpload with insert_one reached also when ingest_document
\* raised
DocumentsInsertedRegardless(docs, file_id, user_id, filename, file_type, r, outcome) ==
    IF outcome = "ok"
    THEN docs \cup {DocumentRecord(file_id, user_id, filename, file_type,
                                   IF r.err = "none" THEN r.value ELSE 0)}
    ELSE docs

\* the registry after the try block of an upload handler that called
\* ingest_document with result r: documents.insert_one(doc) comes after the
\* awaited ingest_document, so it runs only when that returned, and it adds
\* the record unless it raises itself
DocumentsAfterUpload(docs, file_id, user_id, filename, file_type, r, outcome) ==
    IF r.err = "none" /\ outcome = "ok"
    THEN docs \cup {DocumentRecord(file_id, user_id, filename, file_type, r.value)}
    ELSE docs

\* the response of a handler: its route, the HTTP status, and how far the
\* handler got with ingest_document ("none": not called)
Response(route, status, ingest) ==
    [route |-> route, status |-> status, ingest |-> ingest]

IngestStage(r) == IF r.err = "none" THEN "returned" ELSE "raised"

\* POST /upload/text: upload_text(request, current_user)
UploadText(content, title, user_id, file_id, env, outcome) ==
    LET text == UploadCache[content].text
    IN /\ phase = "up"
       /\ IF Len(text) < 50
          THEN /\ response' = Response("upload_text", 400, "none")
               /\ UNCHANGED <<coreVars, documents>>
          ELSE /\ IngestDocument(text, file_id, user_id, title, "text", env)
               /\ documents' = DocumentsAfterUpload(documents, file_id, user_id,
                                                    title, "text", ret', outcome)
               /\ response' =
                     Response("upload_text",
                              IF ret'.err = "none" /\ outcome = "ok"
                              THEN 200 ELSE 500,
                              IngestStage(ret'))
       /\ UNCHANGED <<files, workerVars>>

\* POST /upload/file: upload_file(file, current_user); the file is saved as
\* {file_id}_{filename} and removed again when the try block raises
UploadFile(content, filename, ext, user_id, file_id, extract, env, outcome) ==
    LET text == UploadCache[content].text
    IN /\ phase = "up"
       /\ IF ext \notin AllowedExtensions
          THEN /\ response' = Response("upload_file", 400, "none")
               /\ UNCHANGED <<coreVars, documents, files>>
          ELSE IF extract = "extract_fail" \/ text = <<>> \/ Len(text) < 50
          THEN /\ response' = Response("upload_file", 500, "none")
               /\ UNCHANGED <<coreVars, documents, files>>
          ELSE /\ IngestDocument(text, file_id, user_id, filename, ext, env)
               /\ documents' = DocumentsAfterUpload(documents, file_id, user_id,
                                                    filename, ext, ret', outcome)
               /\ files' = IF ret'.err = "none" /\ outcome = "ok"
                           THEN files \cup {file_id} ELSE files
               /\ response' =
                     Response("upload_file",
                              IF ret'.err = "none" /\ outcome = "ok"
                              THEN 200 ELSE 500,
                              IngestStage(ret'))
       /\ UNCHANGED workerVars

\* FindOne matching the document id alone
FindOneAnyUser(docs, document_id, user_id) ==
    {d \in docs : d.id = document_id}

\* documents.find_one({"_id": document_id, "user_id": user_id}): the records
\* that match (none, or the one with that id)
FindOne(docs, document_id, user_id) ==
    {d \in docs : d.id = document_id /\ d.user_id = user_id}

\* the response of delete_document, with the request it answers: the path's
\* document_id, the current user, and whether a registry call raised
DeleteResponse(status, document_id, user_id, outcome) ==
    [route |-> "delete_document", status |-> status, ingest |-> "none",
     document_id |-> document_id, user_id |-> user_id, outcome |-> outcome]

\* DELETE /upload/documents/{document_id}: delete_document(document_id,
\* current_user)
DeleteDocument(document_id, user_id, outcome) ==
    LET found == FindOne(documents, document_id, user_id)
    IN /\ phase = "up"
       /\ IF outcome = "find_fail"
          THEN /\ response' = DeleteResponse(500, document_id, user_id, outcome)
               /\ UNCHANGED <<coreVars, documents, files>>
          ELSE IF found = {}
          THEN /\ response' = DeleteResponse(404, document_id, user_id, outcome)
               /\ UNCHANGED <<coreVars, documents, files>>
          ELSE /\ DeleteDocumentChunks(document_id)
               /\ IF ret'.err # "none" \/ outcome = "delete_fail"
                  THEN /\ response' = DeleteResponse(500, document_id, user_id,
                                                     outcome)
                       /\ UNCHANGED <<documents, files>>
                  ELSE /\ documents' = {d \in documents : d.id # document_id}
                       /\ files' = files \ {document_id}
                       /\ response' = DeleteResponse(200, document_id, user_id,
                                                     outcome)
       /\ UNCHANGED workerVars

PostText ==
    \E content \in UploadContents, title \in Filenames, user_id \in Users,
       file_id \in FreshIds, env \in EmbedOutcomes(embedding_model),
       outcome \in InsertOutcomes :
        UploadText(content, title, user_id, file_id, env, outcome)

PostFile ==
    \E content \in UploadContents, filename \in Filenames, ext \in FileExts,
       user_id \in Users, file_id \in FreshIds, extract \in ExtractOutcomes,
       env \in EmbedOutcomes(embedding_model), outcome \in InsertOutcomes :
        UploadFile(content, filename, ext, user_id, file_id, extract, env, outcome)

DeleteUploaded ==
    \E document_id \in DocIds, user_id \in Users, outcome \in DeleteOutcomes :
        DeleteDocument(document_id, user_id, outcome)

\* the upload router on top of the core: requests are served one at a time
NextUpload == PostText \/ PostFile \/ DeleteUploaded \/ Startup

InitUpload == \E cfg \in UploadSettings : InitWith(cfg)

SpecUpload == InitUpload /\ [][NextUpload]_vars

\* ------------------------------------------------------ concurrent callers
\* The handlers are coroutines of one event loop. ingest_document and
\* retrieve_context contain no await: add_documents, search_documents and
\* create_embeddings are plain calls, so a task that has started one of them
\* keeps the loop's thread until the call returns. A thread (the program
\* starts some, for extraction) is scheduled independently of the loop.
\* A caller's position: "idle", "ready" (submitted, not started), "loading"
\* (vector_db.py line 19 found _embedding_model None; line 21 not yet done),
\* "encoding" (inside model.encode, line 58), "done".
\* The embedder is taken to load and infer without raising here.
TaskTexts == { <<"a">>, <<"b", " ", "a">> }

\* the calls submitted: ingest_document(text, "d1", "u1", "f1", "text") and
\* retrieve_context(text, "u1", MaxTopK) by tasks, get_embedding_model() by
\* threads
Requests ==
    [kind : {"task"}, op : {"ingest_document"}, text : TaskTexts]
        \cup [kind : {"task"}, op : {"retrieve_context"}, text : {<<"a">>}]
        \cup [kind : {"thread"}, op : {"get_embedding_model"}, text : {<<>>}]

\* the entries an ingest_document request builds
RequestEntries(req) ==
    BuildEntries(Chunks(req.text, settings), "d1", "u1", "f1", "text")

\* how many callers have completed
DoneCount == Cardinality({w \in Workers : workers[w].pc = "done"})

\* the caller's call has returned (err = "none") or raised
Finish(w, err, value) ==
    workers' = [workers EXCEPT ![w] =
                  [pc |-> "done", req |-> workers[w].req, err |-> err,
                   value |-> value, order |-> DoneCount]]

MoveTo(w, pc) ==
    workers' = [workers EXCEPT ![w] = [pc |-> pc, req |-> workers[w].req]]

\* a request arrives and its task is created, or a thread is started
Submit(w, req) ==
    /\ phase = "up"
    /\ workers[w].pc = "idle"
    /\ workers' = [workers EXCEPT ![w] = [pc |-> "ready", req |-> req]]
    /\ UNCHANGED <<coreVars, routerVars, loop, loads>>

\* the caller starts running, up to the test of _embedding_model in the
\* embedding_model property: a task needs the event loop to be free and then
\* holds it
Enter(w) ==
    LET req == workers[w].req
        embeds == /\ ~GetCollectionRaises(collection)
                  /\ req.op = "ingest_document" =>
                        /\ ~SplitterRaises(settings)
                        /\ Chunks(req.text, settings) # <<>>
    IN /\ workers[w].pc = "ready"
       /\ IF req.kind = "thread"
          THEN /\ IF embedding_model = None
                  THEN MoveTo(w, "loading")
                  ELSE Finish(w, "none", embedding_model)
               /\ UNCHANGED loop
          ELSE /\ loop = None
               /\ IF req.op = "ingest_document" /\ SplitterRaises(settings)
                  THEN Finish(w, "ValueError", None)
                  ELSE IF req.op = "ingest_document"
                          /\ Chunks(req.text, settings) = <<>>
                  THEN Finish(w, "none", 0)
                  ELSE IF GetCollectionRaises(collection)
                  THEN Finish(w, "RuntimeError", None)
                  ELSE MoveTo(w, IF embedding_model = None
                                 THEN "loading" ELSE "encoding")
               /\ loop' = IF embeds THEN w ELSE loop
       /\ UNCHANGED <<coreVars, routerVars, loads>>

\* self._embedding_model = SentenceTransformer(settings.embedding_model)
Load(w) ==
    /\ workers[w].pc = "loading"
    /\ embedding_model' = Loaded
    /\ loads' = loads + 1
    /\ IF workers[w].req.kind = "thread"
       THEN Finish(w, "none", Loaded)
       ELSE MoveTo(w, "encoding")
    /\ UNCHANGED <<phase, settings, collection, index, call, ret, prev>>
    /\ UNCHANGED <<routerVars, loop>>

\* model.encode returns and the call goes on to collection.add or
\* collection.query and returns; the task gives the event loop back
CreateEmbeddings(w) ==
    LET req == workers[w].req
        v == Encode(req.text)
    IN /\ workers[w].pc = "encoding"
       /\ IF req.op = "ingest_document"
          THEN /\ index' = AddDocuments(index, RequestEntries(req), FALSE)
               /\ Finish(w, "none", Len(Chunks(req.text, settings)))
          ELSE /\ \E r \in CollectionQuery(index, v, MaxTopK,
                                          BuildFilter("u1", None)) :
                      Finish(w, "none", BuildResponse(QueryResults(r, v)))
               /\ UNCHANGED index
       /\ loop' = None
       /\ UNCHANGED <<phase, settings, collection, embedding_model, call, ret, prev>>
       /\ UNCHANGED <<routerVars, loads>>

SubmitRequest == \E w \in Workers, req \in Requests : Submit(w, req)

EnterCall == \E w \in Workers : Enter(w)

LoadModel == \E w \in Workers : Load(w)

EncodeAndFinish == \E w \in Workers : CreateEmbeddings(w)

NextTasks == SubmitRequest \/ EnterCall \/ LoadModel \/ EncodeAndFinish \/ Startup

SpecTasks == Init /\ [][NextTasks]_vars

\* -------------------------------------------------------- the chunker alone
\* splitter.split_text as ingest_document constructs and calls it, applied
\* once to a text: every text of at most MaxTextLen characters under every
\* chunk size up to MaxTextLen and overlap the constructor accepts, and the
\* 1000-character texts below under the default settings.
Alphabet == {"a", "b", " ", "\n", "."}

ShortTexts == UNION {[1..n -> Alphabet] : n \in 0..MaxTextLen}

SmallSettings ==
    {cfg \in [chunk_size : 1..MaxTextLen, chunk_overlap : 0..MaxTextLen] :
        ~SplitterRaises(cfg)}

\* a text of 1000 characters whose only paragraph break follows its first 420
\* characters: letters "a", the break "\n\n", and the character ch at place p
ScenarioText(p, ch) ==
    [i \in 1..1000 |->
        IF i \in {421, 422} THEN "\n" ELSE IF i = p THEN ch ELSE "a"]

ScenarioTexts ==
    {ScenarioText(p, ch) : p \in {1, 2, 220, 221, 419, 424, 620, 999, 1000},
                           ch \in {"a", "b", " ", "."}}

\* the texts split_text is applied to under settings cfg
ChunkerTexts(cfg) == IF cfg = DefaultSettings THEN ScenarioTexts ELSE ShortTexts

InitChunker == \E cfg \in SmallSettings \cup {DefaultSettings} : InitWith(cfg)

\* chunks = splitter.split_text(text)
SplitTextCall(text) ==
    /\ call = NoCall
    /\ Completed([op |-> "split_text", text |-> text],
                 [err |-> "none", value |-> SplitText(text, settings),
                  results |-> None, writes |-> 0])
    /\ UNCHANGED <<phase, settings, collection, embedding_model, index>>
    /\ UNCHANGED <<routerVars, workerVars>>

Split == \E text \in ChunkerTexts(settings) : SplitTextCall(text)

NextChunker == Split

SpecChunker == InitChunker /\ [][NextChunker]_vars

\* ------------------------------------------------ settings from the environment
\* Settings() reads CHUNK_SIZE and CHUNK_OVERLAP from the environment as
\* integers and validates nothing; lifespan does not look at them.
ConfigSettings ==
    [chunk_size : 1..ChunkSize, chunk_overlap : 0..(ChunkSize + 1)]

InitConfig == \E cfg \in ConfigSettings : InitWith(cfg)

IngestConfigured ==
    /\ \E text \in Texts, env \in EmbedOutcomes(embedding_model) :
           IngestDocument(text, "d1", "u1", "f1", "text", env)
    /\ UNCHANGED <<routerVars, workerVars>>

NextConfig == Startup \/ IngestConfigured \/ Delete \/ Restart

SpecConfig == InitConfig /\ [][NextConfig]_vars

\* ------------------------------------------------------------- properties
IsOp(c, op) == c.op = op

\* the entry of the index stored under an id
EntryOf(entries, id) == CHOOSE e \in entries : e.id = id

\* C1 (tenant isolation): every source a successful retrieve_context for user
\* U returns is the content of a stored entry whose metadata.user_id is U.
C1_TenantIsolation ==
    (IsOp(call, "retrieve_context") /\ ret.err = "none") =>
        /\ Len(ret.value.sources) = Len(ret.results.ids)
        /\ \A i \in 1..Len(ret.results.ids) :
              /\ \E e \in index : e.id = ret.results.ids[i]
              /\ EntryOf(index, ret.results.ids[i]).metadata.user_id = call.user_id
              /\ EntryOf(index, ret.results.ids[i]).document
                    = ret.value.sources[i].content

\* a retrieval for U returned a source although an entry of another user is
\* strictly nearer to the query than that source
C1_Witness ==
    /\ IsOp(call, "retrieve_context") /\ ret.err = "none"
    /\ Len(ret.results.ids) >= 1
    /\ \E e \in index :
          /\ e.metadata.user_id # call.user_id
          /\ Distance(Encode(call.query), e.embedding) < ret.results.distances[1]

\* C2 (deletion completeness): a delete_document_chunks(D) that returns leaves
\* no entry with metadata.document_id = D and leaves the entries of every other
\* document as they were.
C2_DeletionComplete ==
    [][(IsOp(call', "delete_document_chunks") /\ ret'.err = "none") =>
          /\ DocumentCount(index', call'.document_id) = 0
          /\ {e \in index' : e.metadata.document_id # call'.document_id}
                = {e \in index : e.metadata.document_id # call'.document_id}]_vars

\* delete_document_chunks(D) removed several entries of D, and entries of
\* another document remain
C2_Witness ==
    /\ IsOp(call, "delete_document_chunks") /\ ret.err = "none"
    /\ Cardinality(ret.results) >= 2
    /\ index # {}

\* C3 (idempotent re-ingestion): ingest_document called again with the
\* document_id and text of the successful call before it succeeds whenever the
\* embedder does, returns the same chunk_count, and leaves the number of
\* entries of the document as it was.
C3_IdempotentReingest ==
    (IsOp(call, "ingest_document") /\ IsOp(prev, "ingest_document")
        /\ ret.err # "EmbeddingError") =>
        /\ ret.err = "none"
        /\ ret.value = prev.value
        /\ DocumentCount(index, call.document_id) = prev.count

\* the second of two equal ingestions returned, with more than one chunk
C3_Witness ==
    /\ IsOp(call, "ingest_document") /\ IsOp(prev, "ingest_document")
    /\ ret.err = "none" /\ ret.value >= 2 /\ prev.value = ret.value

\* the entries a successful ingest_document call is said to have written
Written(c) ==
    BuildEntries(Chunks(c.text, settings), c.document_id, c.user_id,
                 c.filename, c.file_type)

\* C4 (upsert semantics of the index write): after a successful
\* ingest_document the entry stored under each chunk id it wrote is the newly
\* built one (text, embedding and metadata), and it is the only one under that
\* id.
C4_UpsertReplaces ==
    (IsOp(call, "ingest_document") /\ ret.err = "none") =>
        \A n \in Written(call) :
            \A e \in index : e.id = n.id => e = n

\* C5 (re-ingestion is delete-then-write): after ingest_document for document
\* D returns n > 0, the index holds exactly n entries with document_id D.
C5_DeleteThenWrite ==
    (IsOp(call, "ingest_document") /\ ret.err = "none" /\ ret.value > 0) =>
        DocumentCount(index, call.document_id) = ret.value

\* entries that satisfy the filter retrieve_context is meant to apply: of the
\* user, and of one of document_ids when that list is given and not empty
Wanted(entries, user_id, document_ids) ==
    {e \in entries :
        /\ e.metadata.user_id = user_id
        /\ (document_ids # None /\ document_ids # <<>>)
              => e.metadata.document_id \in Range(document_ids)}

\* C6 (ingest-then-retrieve): a retrieve_context for user U that directly
\* follows an ingest_document of D by U with a positive chunk_count (and whose
\* query embedding succeeds) returns at least one source; when D is the only
\* document of U, or document_ids = [D], every source has document_id D.
C6_IngestThenRetrieve ==
    (IsOp(call, "retrieve_context") /\ IsOp(prev, "ingest_document")
        /\ ret.err # "EmbeddingError") =>
        /\ ret.err = "none"
        /\ Len(ret.value.sources) >= 1
        /\ (\/ call.document_ids = <<prev.document_id>>
            \/ \A e \in index : e.metadata.user_id = call.user_id
                                   => e.metadata.document_id = prev.document_id)
              => \A i \in 1..Len(ret.value.sources) :
                    ret.value.sources[i].document_id = prev.document_id

\* C7 (exactly min(top_k, m) results): a retrieve_context on the opened store
\* whose query embedding succeeds returns min(top_k, m) sources, m the number
\* of entries that satisfy the filter (user_id, and document_ids when given).
C7_ExactlyMinTopK ==
    (IsOp(call, "retrieve_context") /\ collection # None
        /\ ret.err # "EmbeddingError") =>
        /\ ret.err = "none"
        /\ Len(ret.value.sources)
              = Min(call.top_k,
                    Cardinality(Wanted(index, call.user_id, call.document_ids)))

\* C8 (empty result is not an error): a retrieve_context on the opened store
\* whose query embedding succeeds, with no entry satisfying the filter,
\* returns empty contexts and sources and raises nothing.
C8_EmptyNotError ==
    (IsOp(call, "retrieve_context") /\ collection # None
        /\ ret.err # "EmbeddingError"
        /\ Wanted(index, call.user_id, call.document_ids) = {}) =>
        /\ ret.err = "none"
        /\ ret.value = [contexts |-> <<>>, sources |-> <<>>]

\* C9 (empty ingestion writes nothing): ingest_document of an empty or
\* whitespace-only text returns 0, raises nothing, and leaves the index (and
\* so count()) and the embedder as they were.
C9_EmptyIngestNoWrite ==
    [][(IsOp(call', "ingest_document") /\ Strip(call'.text) = <<>>) =>
          /\ ret'.err = "none"
          /\ ret'.value = 0
          /\ index' = index
          /\ CollectionCount(index') = CollectionCount(index)
          /\ embedding_model' = embedding_model]_vars

\* a whitespace-only text was ingested into an index that holds entries
C9_Witness ==
    /\ IsOp(call, "ingest_document") /\ call.text = <<" ", "\n">>
    /\ ret.err = "none" /\ ret.value = 0
    /\ index # {}

CoreOps ==
    {"ingest_document", "retrieve_context", "delete_document_chunks", "get_stats"}

\* C10 as stated: every core operation called while the store is not
\* initialized fails with the store-unavailable error.
C10_AllRaise ==
    (phase = "up" /\ collection = None /\ call.op \in CoreOps) =>
        ret.err = "RuntimeError"

\* C10, amended: while the store is not initialized, retrieve_context,
\* delete_document_chunks, get_stats and ingest_document of a text with at least
\* one chunk raise RuntimeError without loading the embedder or changing the
\* index; ingest_document of an empty or whitespace-only text returns 0.
C10_UninitializedRaises ==
    [][(collection = None /\ call'.op \in CoreOps) =>
          /\ index' = index
          /\ embedding_model' = embedding_model
          /\ IF IsOp(call', "ingest_document") /\ Strip(call'.text) = <<>>
             THEN ret'.err = "none" /\ ret'.value = 0
             ELSE ret'.err = "RuntimeError"]_vars

\* after a failed initialisation, with entries persisted by an earlier
\* process, an ingest_document of a text with chunks raised RuntimeError
C10_Witness ==
    /\ phase = "up" /\ collection = None
    /\ IsOp(call, "ingest_document") /\ Strip(call.text) # <<>>
    /\ ret.err = "RuntimeError"
    /\ embedding_model = None
    /\ index # {}

\* C11 (embedding before any write): an ingest_document call in which
\* create_embeddings raises (model load or inference) ends with that error,
\* has issued no write to the store, and leaves the index exactly as it was.
C11_EmbedFailureNoWrite ==
    [][(IsOp(call', "ingest_document") /\ ret'.err = "EmbeddingError") =>
          /\ ret'.writes = 0
          /\ index' = index]_vars

\* on an opened store that holds entries, an ingestion of a text with two
\* chunks under a document id with no entry yet ended with the embedder's error
C11_Witness ==
    /\ IsOp(call, "ingest_document") /\ ret.err = "EmbeddingError"
    /\ Len(Chunks(call.text, settings)) = 2
    /\ DocumentCount(index, call.document_id) = 0
    /\ index # {}

\* C12 (deleting nothing is a no-op): on the opened store,
\* delete_document_chunks(D) for a document with no entry raises nothing,
\* issues no delete to the store and leaves the index unchanged; so does the
\* second of two delete_document_chunks(D) calls in a row.
C12_DeleteNothingNoOp ==
    [][(IsOp(call', "delete_document_chunks") /\ collection # None
          /\ \/ DocumentCount(index, call'.document_id) = 0
             \/ IsOp(call, "delete_document_chunks") /\ ret.err = "none"
                   /\ call.document_id = call'.document_id) =>
          /\ ret'.err = "none"
          /\ ret'.results = {}
          /\ ret'.writes = 0
          /\ index' = index]_vars

\* delete_document_chunks returned for a document without entries while the
\* index holds entries of another document
C12_Witness ==
    /\ IsOp(call, "delete_document_chunks") /\ ret.err = "none"
    /\ ret.results = {}
    /\ ret.writes = 0
    /\ index # {}

IsUpload(r) == r.route \in {"upload_file", "upload_text"}

\* C13 (no registry record for a failed ingestion): an upload request whose
\* ingest_document call raised writes no Document record, and every record an
\* upload writes is the one of the ingest_document call that returned in that
\* request, with the chunk count it returned.
C13_NoRecordWithoutIngest ==
    [][IsUpload(response') =>
          /\ response'.ingest = "raised" => documents' = documents
          /\ \A d \in documents' \ documents :
                /\ response'.ingest = "returned"
                /\ IsOp(call', "ingest_document") /\ ret'.err = "none"
                /\ call'.document_id = d.id
                /\ d.chunks_count = ret'.value]_vars

\* an upload answered 500 because the embedder raised in ingest_document,
\* while the registry holds the record of an earlier upload
C13_Witness ==
    /\ IsUpload(response) /\ response.status = 500
    /\ response.ingest = "raised"
    /\ IsOp(call, "ingest_document") /\ ret.err = "EmbeddingError"
    /\ documents # {}

\* C14 (last write wins): after two concurrent ingest_document calls for the
\* same document_id with different texts have both completed on the opened
\* store, every chunk id written by both holds the entry of the call whose
\* index write completed last; neither call has raised.
C14_LastWriteWins ==
    \A w, u \in Workers :
        (/\ collection # None
         /\ workers[w].pc = "done" /\ workers[u].pc = "done" /\ w # u
         /\ workers[w].req.op = "ingest_document"
         /\ workers[u].req.op = "ingest_document"
         /\ workers[w].req.text # workers[u].req.text
         /\ workers[w].order < workers[u].order) =>
            /\ workers[w].err = "none" /\ workers[u].err = "none"
            /\ \A n \in RequestEntries(workers[u].req) :
                  n.id \in Ids(RequestEntries(workers[w].req)) =>
                     \A e \in index : e.id = n.id => e = n

\* C15 (single-flight initialisation): whatever the interleaving of the
\* concurrent first callers of the embedder, threads or tasks, the model is
\* constructed at most once.
C15_SingleFlight == loads <= 1

\* C16 (embedding never blocks the scheduler): while a task is inside the
\* embedding step (loading the model or in model.encode), a task that is ready
\* to run can start.
C16_NeverBlocks ==
    \A w, u \in Workers :
        (/\ workers[w].pc \in {"loading", "encoding"}
         /\ workers[w].req.kind = "task"
         /\ workers[u].pc = "ready"
         /\ workers[u].req.kind = "task") => ENABLED Enter(u)

\* C17 as stated: a text no longer than chunk_size yields exactly one chunk,
\* the trimmed text.
C17_OneChunk ==
    (IsOp(call, "split_text") /\ Len(call.text) <= settings.chunk_size) =>
        ret.value = <<Strip(call.text)>>

\* C17, amended: a text no longer than chunk_size that has a character other
\* than whitespace yields exactly one chunk, the trimmed text; an empty or
\* whitespace-only text yields no chunk, except that under chunk_size 1 a
\* single whitespace character comes back as a chunk, untrimmed.
C17_OneChunkUnlessBlank ==
    (IsOp(call, "split_text") /\ Len(call.text) <= settings.chunk_size) =>
        IF Strip(call.text) # <<>> THEN ret.value = <<Strip(call.text)>>
        ELSE IF call.text # <<>> /\ settings.chunk_size = 1
        THEN ret.value = <<call.text>>
        ELSE ret.value = <<>>

\* a text as long as the chunk size, two letters around a space with a
\* trailing newline beyond them trimmed, came back as one chunk
C17_Witness ==
    /\ IsOp(call, "split_text")
    /\ Len(call.text) = settings.chunk_size
    /\ call.text = <<" ", "a", "\n">>
    /\ ret.value = << <<"a">> >>

IsScenario ==
    /\ IsOp(call, "split_text")
    /\ settings = DefaultSettings
    /\ call.text \in ScenarioTexts

C19_RejectedAtSetup ==
    IsOp(call, "ingest_document") =>
        /\ ret.err # "ValueError"
        /\ settings.chunk_overlap < settings.chunk_size

\* C20 (stale trailing chunks): a successful ingest_document of D returning n
\* leaves every entry of D with chunk_index >= n in the index, where a
\* retrieval of its owner for that entry's text can return it; when the call
\* directly follows a delete_document_chunks(D) that returned, the entries of D
\* are exactly the n it built.
C20_StaleChunksRemain ==
    [][(IsOp(call', "ingest_document") /\ ret'.err = "none") =>
          /\ \A e \in index :
                (/\ e.metadata.document_id = call'.document_id
                 /\ e.metadata.chunk_index >= ret'.value) =>
                    /\ e \in index'
                    /\ \E r \in CollectionQuery(index', Encode(e.document), MaxTopK,
                                               BuildFilter(e.metadata.user_id, None)) :
                          e \in Range(r)
          /\ (/\ IsOp(call, "delete_document_chunks") /\ ret.err = "none"
              /\ call.document_id = call'.document_id) =>
                 {e \in index' : e.metadata.document_id = call'.document_id}
                    = IF ret'.value > 0 THEN Written(call') ELSE {}]_vars

\* a re-ingestion of D returned 1 and an entry of D with chunk_index 1, of the
\* earlier ingestion, is in the index
C20_Witness ==
    /\ IsOp(call, "ingest_document") /\ ret.err = "none" /\ ret.value = 1
    /\ \E e \in index : /\ e.metadata.document_id = call.document_id
                        /\ e.metadata.chunk_index = 1
                        /\ e.metadata.user_id = call.user_id

\* document ids as strings, some of them holding "_chunk_" and digits
DocIdStrings ==
    { <<"d">>, <<"d", "1">>, <<"1">>,
      <<"d", "_", "c", "h", "u", "n", "k", "_">>,
      <<"d", "_", "c", "h", "u", "n", "k", "_", "1">>,
      <<"d", "_", "c", "h", "u", "n", "k", "_", "1", "_", "c", "h", "u", "n", "k", "_", "0">>,
      <<"d", "1", "_", "c", "h", "u", "n", "k", "_", "1", "0">> }

\* the formatted chunk id determines the document id and the chunk index
ChunkIdInjective ==
    \A d1, d2 \in DocIdStrings : \A i, j \in 0..12 :
        FormatChunkId(d1, i) = FormatChunkId(d2, j) => d1 = d2 /\ i = j

\* C21 (chunk ids): in every index state no two entries share a chunk id and
\* every entry's id is its metadata.document_id, "_chunk_" and its
\* metadata.chunk_index, a format that determines both; the entries an
\* ingest_document call adds carry that call's document_id, user_id, filename
\* and file_type.
C21_ChunkIdsUnique ==
    [][/\ ChunkIdInjective
       /\ \A e, f \in index' : e.id = f.id => e = f
       /\ \A e \in index' :
             e.id = ChunkId(e.metadata.document_id, e.metadata.chunk_index)
       /\ IsOp(call', "ingest_document") =>
             \A e \in index' \ index :
                /\ e.metadata.document_id = call'.document_id
                /\ e.metadata.user_id = call'.user_id
                /\ e.metadata.filename = call'.filename
                /\ e.metadata.file_type = call'.file_type]_vars

\* an ingestion of two chunks returned while the index holds entries of both
\* documents and of both users
C21_Witness ==
    /\ IsOp(call, "ingest_document") /\ ret.err = "none" /\ ret.value = 2
    /\ {e.metadata.document_id : e \in index} = DocIds
    /\ {e.metadata.user_id : e \in index} = Users

\* C22 (contiguous chunk indexes): in every index state the chunk_index values
\* of the entries of each document are exactly 0..k-1, k the number of its
\* entries.
C22_ContiguousIndexes ==
    \A d \in DocIds :
        {e.metadata.chunk_index : e \in {x \in index : x.metadata.document_id = d}}
            = 0..(DocumentCount(index, d) - 1)

\* an ingestion of one chunk returned while another document holds two
\* entries
C22_Witness ==
    /\ IsOp(call, "ingest_document") /\ ret.err = "none" /\ ret.value = 1
    /\ DocumentCount(index, call.document_id) = 1
    /\ \E d \in DocIds \ {call.document_id} : DocumentCount(index, d) = 2

\* C23 (document filter): a retrieve_context with a non-empty document_ids
\* list, on the opened store and with the query embedded, returns as sources
\* only entries of user U whose document_id is in the list.
C23_FilterConjunction ==
    (IsOp(call, "retrieve_context") /\ collection # None
        /\ ret.err # "EmbeddingError"
        /\ call.document_ids # None /\ call.document_ids # <<>>) =>
        /\ ret.err = "none"
        /\ \A i \in 1..Len(ret.value.sources) :
              /\ ret.value.sources[i].document_id \in Range(call.document_ids)
              /\ ret.results.metadatas[i].user_id = call.user_id

\* C24 (one write, all chunks visible): a successful ingest_document of n > 0
\* chunks has issued one write, and the index a later retrieve_context reads
\* holds all n chunks of that ingestion, never a strict subset of them.
C24_AllChunksVisible ==
    (IsOp(call, "ingest_document") /\ ret.err = "none" /\ ret.value > 0) =>
        /\ ret.writes = 1
        /\ Written(call) \cap index = Written(call)

\* C25 (ranking preserved): a retrieve_context that returns gives the sources
\* in the order the store returned them, by ascending distance; each score is
\* 1 - distance, so the scores never increase along the list; contexts and
\* sources have the same length and contexts[i] is sources[i].content.
C25_RankingPreserved ==
    (IsOp(call, "retrieve_context") /\ ret.err = "none") =>
        LET res == ret.results
            sources == ret.value.sources
            contexts == ret.value.contexts
        IN /\ Len(contexts) = Len(sources)
           /\ Len(sources) = Len(res.documents)
           /\ \A i \in 1..Len(sources) :
                 /\ contexts[i] = sources[i].content
                 /\ sources[i].content = res.documents[i]
                 /\ sources[i].document_id = res.metadatas[i].document_id
                 /\ sources[i].filename = res.metadatas[i].filename
                 /\ sources[i].score = 1 - res.distances[i]
           /\ \A i, j \in 1..Len(sources) :
                 i < j => /\ res.distances[i] <= res.distances[j]
                          /\ sources[i].score >= sources[j].score

\* a retrieval returned two sources of different texts, the second with the
\* strictly lower score
C25_Witness ==
    /\ IsOp(call, "retrieve_context") /\ ret.err = "none"
    /\ Len(ret.value.sources) = 2
    /\ ret.value.sources[1].content # ret.value.sources[2].content
    /\ ret.value.sources[1].score > ret.value.sources[2].score

\* the call reaches create_embeddings: a retrieve_context, or an
\* ingest_document of a text with chunks, on the opened store
Embeds(c) ==
    /\ collection # None
    /\ \/ IsOp(c, "retrieve_context")
       \/ IsOp(c, "ingest_document") /\ Strip(c.text) # <<>>

\* C26 (lazy, memoized embedding model): the model is not loaded while the
\* process boots nor by the lifespan's initialize_vector_db; it becomes loaded
\* only in a call that embeds, and the first such call whose embedding does not
\* fail loads it; once loaded it stays loaded in every later call of the
\* process.
C26_LazyMemoized ==
    [][/\ phase' = "boot" => embedding_model' = None
       /\ IsOp(call', "lifespan") => embedding_model' = None
       /\ (embedding_model = None /\ embedding_model' # None) => Embeds(call')
       /\ (embedding_model = None /\ Embeds(call')
             /\ ret'.err # "EmbeddingError") => embedding_model' = Loaded
       /\ (embedding_model = Loaded /\ ~IsOp(call', "exit"))
             => embedding_model' = Loaded]_vars

\* a retrieval returned on the loaded model right after a successful ingestion
\* of the same user
C26_Witness ==
    /\ IsOp(call, "retrieve_context") /\ ret.err = "none"
    /\ IsOp(prev, "ingest_document")
    /\ embedding_model = Loaded

\* C27 (entries are immutable): an entry stored in the index is still there,
\* with the same id, text, embedding and metadata, after every step, unless the
\* step is a delete_document_chunks of its document, which removes it; no
\* ingest_document changes or removes a stored entry.
C27_EntriesImmutable ==
    [][\A e \in index :
          \/ e \in index'
          \/ /\ IsOp(call', "delete_document_chunks")
             /\ call'.document_id = e.metadata.document_id
             /\ e.id \notin Ids(index')]_vars

\* an ingestion returned that built, for a stored chunk id, an entry with
\* another text, and the stored entry is the one in the index
C27_Witness ==
    /\ IsOp(call, "ingest_document") /\ ret.err = "none"
    /\ \E n \in Written(call) : \E e \in index :
          e.id = n.id /\ e.document # n.document

\* C30 (empty list is no filter): a retrieve_context with document_ids = [],
\* on the opened store and with the query embedded, returns what the same call
\* with document_ids = None returns: the nearest top_k of all entries of the
\* user, of whatever document, and not an empty result.
C30_EmptyListAsNone ==
    (IsOp(call, "retrieve_context") /\ collection # None
        /\ ret.err # "EmbeddingError"
        /\ call.document_ids # None /\ call.document_ids = <<>>) =>
        LET v == Encode(call.query)
            byUser == [user_id |-> [op |-> "$eq", v |-> call.user_id]]
            own == {e \in index : e.metadata.user_id = call.user_id}
        IN /\ ret.err = "none"
           /\ ret.results \in {QueryResults(r, v) :
                                r \in CollectionQuery(index, v, call.top_k, byUser)}
           /\ Len(ret.value.sources) = Min(call.top_k, Cardinality(own))

\* a retrieval with document_ids = [] returned two sources of two documents
C30_Witness ==
    /\ IsOp(call, "retrieve_context")
    /\ call.document_ids # None /\ call.document_ids = <<>>
    /\ ret.err = "none"
    /\ Len(ret.value.sources) = 2
    /\ ret.value.sources[1].document_id # ret.value.sources[2].document_id

\* the registry holds the document the delete request names under the
\* requester's user_id
Owned ==
    \E d \in documents :
        d.id = response'.document_id /\ d.user_id = response'.user_id

\* C28 (deletion needs ownership): a delete_document request changes the
\* index, the registry or the files only when the registry holds the document
\* under the requester's user_id, and then it removes index entries of that
\* document only; a request for a document that is not the requester's, whose
\* lookup did not fail, is answered 404 and changes none of them.
C28_DeleteOwnedOnly ==
    [][response'.route = "delete_document" =>
          /\ (index' # index \/ documents' # documents \/ files' # files)
                => Owned
          /\ IsOp(call', "delete_document_chunks") /\ call' # call => Owned
          /\ \A e \in index \ index' :
                e.metadata.document_id = response'.document_id
          /\ (~Owned /\ response'.outcome # "find_fail") =>
                /\ response'.status = 404
                /\ UNCHANGED <<index, documents, files>>]_vars

\* a request to delete another user's document was answered 404 while the
\* document's record and its index entries are there
C28_Witness ==
    /\ response.route = "delete_document" /\ response.status = 404
    /\ \E d \in documents :
          /\ d.id = response.document_id
          /\ d.user_id # response.user_id
          /\ DocumentCount(index, d.id) = d.chunks_count
          /\ d.chunks_count >= 1

\* the registry and the index agree: every record counts the index entries
\* of its document, at least one, and every index entry is of a recorded
\* document
Agree ==
    /\ \A d \in documents :
          /\ d.chunks_count = DocumentCount(index, d.id)
          /\ d.chunks_count >= 1
    /\ \A e \in index : \E d \in documents : d.id = e.metadata.document_id

\* the request of this step failed between its index write and its registry
\* write: insert_one raised after ingest_document returned, or delete_one
\* raised after delete_document_chunks returned
RegistryFailure ==
    \/ IsUpload(response') /\ response'.status = 500
          /\ response'.ingest = "returned"
    \/ response'.route = "delete_document" /\ response'.outcome = "delete_fail"

\* C29 (registry and index agree): while no request fails between its index
\* write and its registry write, the registry and the index agree after every
\* request; an upload ingests under a document id that no index entry, record
\* or file carries, and when it succeeds its record's chunks_count is the
\* number of index entries of that id, at least 1; after a successful delete
\* request the document has neither a record nor an index entry.
C29_RegistryAgrees ==
    [][(Agree /\ ~RegistryFailure) =>
          /\ Agree'
          /\ (IsUpload(response') /\ response'.ingest # "none") =>
                /\ DocumentCount(index, call'.document_id) = 0
                /\ \A d \in documents : d.id # call'.document_id
                /\ call'.document_id \notin files
          /\ (IsUpload(response') /\ response'.status = 200) =>
                \E d \in documents' \ documents :
                   /\ d.id = call'.document_id
                   /\ d.chunks_count = ret'.value
                   /\ d.chunks_count = DocumentCount(index', d.id)
                   /\ d.chunks_count >= 1
          /\ (response'.route = "delete_document" /\ response'.status = 200) =>
                /\ \A d \in documents' : d.id # response'.document_id
                /\ DocumentCount(index', response'.document_id) = 0]_vars

\* a delete request succeeded, and the registry still records another
\* document of two chunks, in agreement with the index
C29_Witness ==
    /\ response.route = "delete_document" /\ response.status = 200
    /\ Agree
    /\ \E d \in documents :
          d.chunks_count = 2 /\ DocumentCount(index, d.id) = 2

====
